---- MODULE Spec2Model ----
(***************************************************************************)
(* State-machine model of run_tile_editor.py: the UndoRedo history, the    *)
(* TileEd grid editor, the TileSelector and the MainWindow JSON codec.     *)
(*                                                                         *)
(* Scales are multiples of 0.25 in the program (floats that are exact in   *)
(* binary); the model counts them in quarters: scale 1.0 is 4, 0.5 is 2,   *)
(* 8.0 is 32.  index is 0-based as in the code; TLA+ sequences are 1-based *)
(* so the entry store[index] of the code is store[index + 1] here.         *)
(***************************************************************************)
EXTENDS Integers, Sequences, FiniteSets, TLC

VARIABLES main, tile_ed, data_store, tile_sel, last, hist, probe

vars == <<main, tile_ed, data_store, tile_sel, last, hist, probe>>

doc_vars == <<main, tile_ed, data_store, tile_sel>>

-----------------------------------------------------------------------------
(* Bounds of the model *)

\* create_copy is not offered once the store would exceed this many entries
MaxHist == 3

\* the tile selector is only clicked on tiles up to this index
MaxTile == 1

\* the atlases of the coordinate checks have up to MaxAtlas x MaxAtlas tiles
MaxAtlas == 3

\* the pointer positions of the coordinate checks are 0, 8, ..., 8 * MaxPoint pixels
MaxPoint == 5

-----------------------------------------------------------------------------
(* Program constants *)

\* 1 / 0.25: the zoom step of zoom_in / zoom_out, the unit the model counts scales in
Quarters == 4

\* TileEd.scale = 1.0 at construction
EdInitScale == 4

\* zoom_in: if self.scale < 8.0
EdMaxScale == 32

\* zoom_out: if self.scale > 0.5
EdMinScale == 2

\* TileSelector.__init__: self.reset(tile_size, pixmap, 4.0)
SelInitScale == 16

\* --tilesize default [16, 16]
ArgTile == 16

\* --tiles: the size of the tilemap the program is started with
ArgTiles == <<1, 2>>

\* --tilesize
ArgTileSize == <<ArgTile, ArgTile>>

\* --tileset
ArgTileset == "map_tiles.png"

OtherTileset == "other.png"

\* QPixmap(tile_image).size(): the pixel size of the image files that exist;
\* a file that does not exist gives a null pixmap of size 0 x 0.
PixmapSize(image) ==
    CASE image = ArgTileset -> <<2 * ArgTile, ArgTile>>
      [] image = OtherTileset -> <<2 * ArgTile, ArgTile \div 2>>
      [] OTHER -> <<0, 0>>

-----------------------------------------------------------------------------
(* Python built-ins the handlers rely on *)

\* list[i] with a Python index: negative indices count from the end
ListIndexOK(n, i) == -n <= i /\ i < n

ListPos(n, i) == IF i < 0 THEN i + n + 1 ELSE i + 1

\* [v] * n
Repeat(v, n) == [k \in 1..n |-> v]

\* dict key lookup: json[k] raises KeyError unless k is a key
Has(json, k) == k \in DOMAIN json

-----------------------------------------------------------------------------
(* class UndoRedo *)

UndoRedo_init(init_data) == [index |-> 0, store |-> <<init_data>>]

UndoRedo_data(ds) == ds.store[ds.index + 1]

\* create_copy without the loop that pops the entries after index
UndoRedo_create_copy_keep(ds) ==
    [index |-> ds.index + 1, store |-> Append(ds.store, ds.store[ds.index + 1])]

\* create_copy copying the newest entry, not the current one
UndoRedo_create_copy_stale(ds) ==
    LET kept == SubSeq(ds.store, 1, ds.index + 1)
    IN  [index |-> ds.index + 1, store |-> Append(kept, ds.store[Len(ds.store)])]

UndoRedo_create_copy(ds) ==
    LET kept == SubSeq(ds.store, 1, ds.index + 1)
    IN  [index |-> ds.index + 1, store |-> Append(kept, ds.store[ds.index + 1])]

\* undo that throws the undone entry away
UndoRedo_undo_drop(ds) ==
    IF ds.index > 0
    THEN [index |-> ds.index - 1, store |-> SubSeq(ds.store, 1, ds.index)]
    ELSE ds

\* undo without its guard
UndoRedo_undo_unguarded(ds) == [ds EXCEPT !.index = ds.index - 1]

UndoRedo_undo(ds) ==
    IF ds.index > 0 THEN [ds EXCEPT !.index = ds.index - 1] ELSE ds

\* redo with its guard off by one
UndoRedo_redo_short(ds) ==
    IF ds.index + 2 < Len(ds.store) THEN [ds EXCEPT !.index = ds.index + 1] ELSE ds

UndoRedo_redo(ds) ==
    IF ds.index + 1 < Len(ds.store) THEN [ds EXCEPT !.index = ds.index + 1] ELSE ds

-----------------------------------------------------------------------------
(* class TileEd: cell access *)

\* the list index set_tile / get_tile compute
CellIndex(size, x, y) == (y * size[1]) + x

\* set_tile raises IndexError and writes nothing when the index is out of range
set_tile_raises(ds, size, x, y) ==
    ~ListIndexOK(Len(UndoRedo_data(ds)), CellIndex(size, x, y))

\* set_tile writing into the entry before the current one
set_tile_previous(ds, size, x, y, value) ==
    LET data == UndoRedo_data(ds)
        i == CellIndex(size, x, y)
        e == IF ds.index > 0 THEN ds.index ELSE 1
    IN  IF ListIndexOK(Len(data), i)
        THEN [ds EXCEPT !.store[e][ListPos(Len(data), i)] = value]
        ELSE ds

\* set_tile on snapshots that share one list: the write shows in every entry
set_tile_aliased(ds, size, x, y, value) ==
    LET data == UndoRedo_data(ds)
        i == CellIndex(size, x, y)
    IN  IF ListIndexOK(Len(data), i)
        THEN [ds EXCEPT !.store = [e \in DOMAIN ds.store |->
                                      [ds.store[e] EXCEPT ![ListPos(Len(data), i)] = value]]]
        ELSE ds

set_tile(ds, size, x, y, value) ==
    LET data == UndoRedo_data(ds)
        i == CellIndex(size, x, y)
    IN  IF ListIndexOK(Len(data), i)
        THEN [ds EXCEPT !.store[ds.index + 1][ListPos(Len(data), i)] = value]
        ELSE ds

get_tile_raises(ds, size, x, y) ==
    ~ListIndexOK(Len(UndoRedo_data(ds)), CellIndex(size, x, y))

get_tile(ds, size, x, y) ==
    LET data == UndoRedo_data(ds)
    IN  data[ListPos(Len(data), CellIndex(size, x, y))]

\* int(pos // tile // scale): two float floor divisions, the scale in quarters
PointToCell(pos, tile, scale) == ((pos \div tile) * Quarters) \div scale

-----------------------------------------------------------------------------
(* Pointer positions the shell delivers.  A position is the pixel at the   *)
(* top-left corner of a displayed cell (cell c is drawn at c * tile *      *)
(* scale by paintEvent); cells -1 and size are positions dragged past the  *)
(* widget's edges while the button is held.                                *)

CellPixel(c, tile, scale) == (c * tile * scale) \div Quarters

InsideXs == {CellPixel(c, tile_ed.tile_size[1], tile_ed.scale) : c \in 0..(tile_ed.size[1] - 1)}

InsideYs == {CellPixel(c, tile_ed.tile_size[2], tile_ed.scale) : c \in 0..(tile_ed.size[2] - 1)}

DragXs == {CellPixel(c, tile_ed.tile_size[1], tile_ed.scale) : c \in -1..tile_ed.size[1]}

DragYs == {CellPixel(c, tile_ed.tile_size[2], tile_ed.scale) : c \in -1..tile_ed.size[2]}

-----------------------------------------------------------------------------
(* class TileEd: handlers *)

TileEd_reset(ed, size, tile_size, pixmap) ==
    [ed EXCEPT !.size = size, !.tile_size = tile_size, !.pixmap = pixmap]

TileEd_mousePressEvent(px, py) ==
    /\ data_store.index + 2 <= MaxHist
    /\ LET copied == UndoRedo_create_copy(data_store)
           x == PointToCell(px, tile_ed.tile_size[1], tile_ed.scale)
           y == PointToCell(py, tile_ed.tile_size[2], tile_ed.scale)
       IN  /\ tile_ed' = [tile_ed EXCEPT !.drawing = TRUE]
           /\ data_store' = set_tile(copied, tile_ed.size, x, y, main.tile)
    /\ UNCHANGED <<main, tile_sel, probe>>

TileEd_mouseReleaseEvent ==
    /\ tile_ed' = [tile_ed EXCEPT !.drawing = FALSE]
    /\ UNCHANGED <<main, data_store, tile_sel, probe>>

\* mouseMoveEvent making a checkpoint of its own before it paints
TileEd_mouseMoveEvent_checkpoint(px, py) ==
    /\ data_store.index + 2 <= MaxHist
    /\ LET x == PointToCell(px, tile_ed.tile_size[1], tile_ed.scale)
           y == PointToCell(py, tile_ed.tile_size[2], tile_ed.scale)
       IN  IF tile_ed.drawing
           THEN data_store' = set_tile(UndoRedo_create_copy(data_store),
                                       tile_ed.size, x, y, main.tile)
           ELSE data_store' = data_store
    /\ UNCHANGED <<main, tile_ed, tile_sel, probe>>

TileEd_mouseMoveEvent(px, py) ==
    /\ LET x == PointToCell(px, tile_ed.tile_size[1], tile_ed.scale)
           y == PointToCell(py, tile_ed.tile_size[2], tile_ed.scale)
       IN  IF tile_ed.drawing
           THEN /\ data_store' = set_tile(data_store, tile_ed.size, x, y, main.tile)
           ELSE /\ data_store' = data_store
    /\ UNCHANGED <<main, tile_ed, tile_sel, probe>>

TileEd_undo ==
    /\ data_store' = UndoRedo_undo(data_store)
    /\ UNCHANGED <<main, tile_ed, tile_sel, probe>>

TileEd_redo ==
    /\ data_store' = UndoRedo_redo(data_store)
    /\ UNCHANGED <<main, tile_ed, tile_sel, probe>>

TileEd_zoom_in ==
    /\ tile_ed' = IF tile_ed.scale < EdMaxScale
                  THEN [tile_ed EXCEPT !.scale = tile_ed.scale + 1]
                  ELSE tile_ed
    /\ UNCHANGED <<main, data_store, tile_sel, probe>>

\* zoom_out with its guard off by one step
TileEd_zoom_out_below ==
    /\ tile_ed' = IF tile_ed.scale >= EdMinScale
                  THEN [tile_ed EXCEPT !.scale = tile_ed.scale - 1]
                  ELSE tile_ed
    /\ UNCHANGED <<main, data_store, tile_sel, probe>>

TileEd_zoom_out ==
    /\ tile_ed' = IF tile_ed.scale > EdMinScale
                  THEN [tile_ed EXCEPT !.scale = tile_ed.scale - 1]
                  ELSE tile_ed
    /\ UNCHANGED <<main, data_store, tile_sel, probe>>

\* the cells clear visits, row by row: for y in range(size[1]): for x in range(size[0])
ClearCells(size) ==
    [k \in 1..(size[1] * size[2]) |-> <<(k - 1) % size[1], (k - 1) \div size[1]>>]

RECURSIVE ClearFrom(_, _, _, _, _)
\* the loop of clear from its k-th cell on; an IndexError ends it
ClearFrom(ds, size, cells, k, tile) ==
    IF k > Len(cells) THEN [ds |-> ds, raised |-> FALSE]
    ELSE IF set_tile_raises(ds, size, cells[k][1], cells[k][2])
         THEN [ds |-> ds, raised |-> TRUE]
         ELSE ClearFrom(set_tile(ds, size, cells[k][1], cells[k][2], tile),
                        size, cells, k + 1, tile)

TileEd_clear(tile) ==
    /\ data_store.index + 2 <= MaxHist
    /\ LET r == ClearFrom(UndoRedo_create_copy(data_store), tile_ed.size,
                          ClearCells(tile_ed.size), 1, tile)
       IN  /\ data_store' = r.ds
    /\ UNCHANGED <<main, tile_ed, tile_sel, probe>>

\* encode_to_JSON emitting the newest entry of the store
TileEd_encode_to_JSON_newest == [data |-> data_store.store[Len(data_store.store)]]

\* encode emitting the oldest entry
TileEd_encode_to_JSON_first == [data |-> data_store.store[1]]

TileEd_encode_to_JSON == [data |-> UndoRedo_data(data_store)]

\* decode keeping the UndoRedo it has and recording the loaded data in it
TileEd_decode_from_JSON_keep(json) ==
    [index |-> Len(data_store.store), store |-> Append(data_store.store, json.data)]

\* the UndoRedo that decode_from_JSON, through reset, installs
TileEd_decode_from_JSON(json) == UndoRedo_init(json.data)

-----------------------------------------------------------------------------
(* class TileSelector *)

TileSelector_reset(tsel, tile_size, pixmap, scale) ==
    [tsel EXCEPT !.tile_size = tile_size, !.pixmap = pixmap, !.scale = scale]

\* tilemap_size of reset: (pixmap width / tile width, pixmap height / tile height),
\* for a pixmap whose size is a multiple of the tile size
TilemapSize(pixmap_size, tile_size) ==
    <<pixmap_size[1] \div tile_size[1], pixmap_size[2] \div tile_size[2]>>

\* x = (tile % tilemap_size[0]) * tile_size[0]; y = (tile // tilemap_size[1]) * tile_size[1]
TileSelector_get_tile_map_coords(tile, tilemap_size, tile_size) ==
    <<(tile % tilemap_size[1]) * tile_size[1], (tile \div tilemap_size[2]) * tile_size[2]>>

\* int((y * tiles_horiz) + x), tiles_horiz = pixmap width / tile width (a float)
TileSelector_get_tile(pixmap_width, tile_width, x, y) ==
    ((y * pixmap_width) + (x * tile_width)) \div tile_width

\* the atlas is drawn at pixmap.size() * scale: the clicks are on displayed tiles
SelXs == {CellPixel(c, tile_sel.tile_size[1], tile_sel.scale) :
            c \in 0..((PixmapSize(tile_sel.pixmap)[1] \div tile_sel.tile_size[1]) - 1)}

SelYs == {CellPixel(c, tile_sel.tile_size[2], tile_sel.scale) :
            c \in 0..((PixmapSize(tile_sel.pixmap)[2] \div tile_sel.tile_size[2]) - 1)}

TileSelector_mousePressEvent(px, py) ==
    /\ LET x == PointToCell(px, tile_sel.tile_size[1], tile_sel.scale)
           y == PointToCell(py, tile_sel.tile_size[2], tile_sel.scale)
           t == TileSelector_get_tile(PixmapSize(tile_sel.pixmap)[1],
                                      tile_sel.tile_size[1], x, y)
       IN  /\ t <= MaxTile
           /\ main' = [main EXCEPT !.tile = t]
    /\ UNCHANGED <<tile_ed, data_store, tile_sel, probe>>

TileSelector_encode_to_JSON == [scale |-> tile_sel.scale]

-----------------------------------------------------------------------------
(* class MainWindow *)

MainWindow_reset(mw, size, tile_size, tile_image, tile) ==
    [mw EXCEPT !.tile_image = tile_image, !.size = size, !.tile_size = tile_size,
               !.pixmap = tile_image, !.tile = tile]

MainWindow_undo == TileEd_undo

MainWindow_redo == TileEd_redo

MainWindow_zoom_in == TileEd_zoom_in

MainWindow_zoom_out == TileEd_zoom_out

MainWindow_clear == TileEd_clear(main.tile)

\* json.dump writes the tuples as arrays and the numbers as they are; json.load
\* gives back the same keys with equal values
MainWindow_encode_to_JSON ==
    [width |-> main.size[1], height |-> main.size[2],
     tile_width |-> main.tile_size[1], tile_height |-> main.tile_size[2],
     selected_tile |-> main.tile, tile_image |-> main.tile_image,
     tile_data |-> TileEd_encode_to_JSON, tile_sel |-> TileSelector_encode_to_JSON]

\* the first statement of decode_from_JSON that raises KeyError, 0 when none does:
\* lines 385, 386, 387, 388, 390 (json["tile_data"]), 258 (json["data"]),
\* 392 (json["tile_sel"]), 111 (json["scale"])
DecodeFailsAt(json) ==
    IF ~(Has(json, "width") /\ Has(json, "height")) THEN 385
    ELSE IF ~(Has(json, "tile_width") /\ Has(json, "tile_height")) THEN 386
    ELSE IF ~Has(json, "selected_tile") THEN 387
    ELSE IF ~Has(json, "tile_image") THEN 388
    ELSE IF ~Has(json, "tile_data") THEN 390
    ELSE IF ~Has(json.tile_data, "data") THEN 258
    ELSE IF ~Has(json, "tile_sel") THEN 392
    ELSE IF ~Has(json.tile_sel, "scale") THEN 111
    ELSE 0

MainWindow_decode_from_JSON(json) ==
    LET at == DecodeFailsAt(json)
        m1 == [main EXCEPT !.size = <<json.width, json.height>>]
        m2 == [m1 EXCEPT !.tile_size = <<json.tile_width, json.tile_height>>]
        m3 == [m2 EXCEPT !.tile = json.selected_tile]
        m4 == [m3 EXCEPT !.tile_image = json.tile_image]
        m5 == MainWindow_reset(m4, m4.size, m4.tile_size, m4.tile_image, m4.tile)
    IN  /\ main' = CASE at = 385 -> main
                     [] at = 386 -> m1
                     [] at = 387 -> m2
                     [] at = 388 -> m3
                     [] OTHER -> m5
        /\ IF at \in {0, 392, 111}
           THEN /\ tile_ed' = TileEd_reset(tile_ed, m5.size, m5.tile_size, m5.pixmap)
                /\ data_store' = TileEd_decode_from_JSON(json.tile_data)
           ELSE UNCHANGED <<tile_ed, data_store>>
        /\ IF at = 0
           THEN tile_sel' = TileSelector_reset(tile_sel, m5.tile_size, m5.pixmap,
                                               json.tile_sel.scale)
           ELSE UNCHANGED tile_sel

\* the documents the file dialog can open
GoodDoc ==
    [width |-> 2, height |-> 1, tile_width |-> ArgTile, tile_height |-> ArgTile \div 2,
     selected_tile |-> 1, tile_image |-> OtherTileset,
     tile_data |-> [data |-> <<1, 0>>], tile_sel |-> [scale |-> 2 * Quarters]]

Without(json, k) == [x \in (DOMAIN json) \ {k} |-> json[x]]

\* a document whose data has fewer entries than width * height
ShortDoc == [GoodDoc EXCEPT !.tile_data = [data |-> <<1>>]]

\* documents that lack a key: one for the first lookup, one for a lookup after
\* MainWindow has assigned some fields, one inside tile_data, one inside tile_sel
MalformedDocs ==
    {Without(GoodDoc, "width"), Without(GoodDoc, "tile_width"),
     [GoodDoc EXCEPT !.tile_data = Without(GoodDoc.tile_data, "data")],
     [GoodDoc EXCEPT !.tile_sel = Without(GoodDoc.tile_sel, "scale")]}

Files == {GoodDoc, ShortDoc} \cup MalformedDocs

MainWindow_load(json) ==
    /\ MainWindow_decode_from_JSON(json)
    /\ UNCHANGED probe

\* save to a file, then load that file
MainWindow_save_load ==
    /\ MainWindow_decode_from_JSON(MainWindow_encode_to_JSON)
    /\ UNCHANGED probe

-----------------------------------------------------------------------------
(* The program after MainWindow.__init__ *)

NoProbe == [kind |-> "none"]

\* no checkpoint scenario is being followed
Idle == [phase |-> "idle", s0 |-> {}, s1 |-> {}, by |-> "", lost |-> {}]

Init ==
    /\ main = [size |-> ArgTiles, tile_size |-> ArgTileSize, tile_image |-> ArgTileset,
               pixmap |-> ArgTileset, tile |-> 0]
    /\ tile_ed = [size |-> ArgTiles, tile_size |-> ArgTileSize, pixmap |-> ArgTileset,
                  drawing |-> FALSE, scale |-> EdInitScale]
    /\ data_store = UndoRedo_init(Repeat(0, ArgTiles[1] * ArgTiles[2]))
    /\ tile_sel = [tile_size |-> ArgTileSize, pixmap |-> ArgTileset, scale |-> SelInitScale]
    /\ last = [op |-> "init", raised |-> FALSE]
    /\ hist = Idle
    /\ probe = NoProbe

\* whether the handler ends in an IndexError raised by set_tile
press_raises(px, py) ==
    set_tile_raises(UndoRedo_create_copy(data_store), tile_ed.size,
                    PointToCell(px, tile_ed.tile_size[1], tile_ed.scale),
                    PointToCell(py, tile_ed.tile_size[2], tile_ed.scale))

move_raises(px, py) ==
    /\ tile_ed.drawing
    /\ set_tile_raises(data_store, tile_ed.size,
                       PointToCell(px, tile_ed.tile_size[1], tile_ed.scale),
                       PointToCell(py, tile_ed.tile_size[2], tile_ed.scale))

clear_raises ==
    ClearFrom(UndoRedo_create_copy(data_store), tile_ed.size,
              ClearCells(tile_ed.size), 1, main.tile).raised

\* the handler that ran last and whether it raised
Log(op, raised) ==
    /\ last' = [op |-> op, raised |-> raised]
    /\ UNCHANGED hist

Next ==
    \/ \E px \in InsideXs, py \in InsideYs :
          TileEd_mousePressEvent(px, py) /\ Log("press", press_raises(px, py))
    \/ \E px \in DragXs, py \in DragYs :
          TileEd_mouseMoveEvent(px, py) /\ Log("move", move_raises(px, py))
    \/ TileEd_mouseReleaseEvent /\ Log("release", FALSE)
    \/ MainWindow_undo /\ Log("undo", FALSE)
    \/ MainWindow_redo /\ Log("redo", FALSE)
    \/ MainWindow_clear /\ Log("clear", clear_raises)
    \/ \E px \in SelXs, py \in SelYs :
          TileSelector_mousePressEvent(px, py) /\ Log("select", FALSE)
    \/ \E json \in Files :
          MainWindow_load(json) /\ Log("load", DecodeFailsAt(json) # 0)
    \/ MainWindow_save_load /\ Log("save_load", FALSE)

Spec == Init /\ [][Next]_vars

-----------------------------------------------------------------------------
(* The checkpoint scenarios of the history.  hist follows the operations   *)
(* since the last checkpoint:                                              *)
(*   edit       create_copy (by press or clear), then only set_tile writes *)
(*   undo       ... then one undo                                          *)
(*   redo       ... then one redo                                          *)
(*   edit_redo  a redo right after the edit                                *)
(*   nav        further undo / redo                                        *)
(* s0 holds the grid contents visible before the checkpoint, s1 the        *)
(* contents visible when the undo was made, by the handler that made the   *)
(* checkpoint ("gesture" once a press has been undone with the button      *)
(* released), lost the contents of the entry that a checkpoint made right  *)
(* after an undo has discarded (kept after the edit only when no entry of  *)
(* the store has these contents).                                          *)

Visible == UndoRedo_data(data_store)

Contents(store) == {store[k] : k \in DOMAIN store}

StillLost == {c \in hist.lost : c \notin Contents(data_store.store)}

Track(op) ==
    CASE op \in {"press", "clear"} ->
            [phase |-> "edit", s0 |-> {Visible}, s1 |-> {}, by |-> op,
             lost |-> IF hist.phase = "undo" THEN hist.s1 ELSE {}]
      [] op = "move" ->
            IF ~tile_ed.drawing \/ hist.phase = "edit" THEN hist ELSE Idle
      [] op = "undo" ->
            CASE hist.phase = "edit" ->
                    [phase |-> "undo", s0 |-> hist.s0, s1 |-> {Visible},
                     by |-> IF hist.by = "press" /\ ~tile_ed.drawing
                            THEN "gesture" ELSE hist.by,
                     lost |-> StillLost]
              [] hist.phase \in {"undo", "redo", "edit_redo", "nav"} ->
                    [Idle EXCEPT !.phase = "nav", !.lost = hist.lost]
              [] OTHER -> Idle
      [] op = "redo" ->
            CASE hist.phase = "undo" -> [hist EXCEPT !.phase = "redo"]
              [] hist.phase = "edit" ->
                    [Idle EXCEPT !.phase = "edit_redo", !.lost = StillLost]
              [] hist.phase \in {"redo", "edit_redo", "nav"} ->
                    [Idle EXCEPT !.phase = "nav", !.lost = hist.lost]
              [] OTHER -> Idle
      [] op \in {"release", "select"} -> hist
      [] OTHER -> Idle

Follow(op) ==
    /\ hist' = Track(op)
    /\ UNCHANGED last

NextHist ==
    \/ \E px \in InsideXs, py \in InsideYs :
          TileEd_mousePressEvent(px, py) /\ Follow("press")
    \/ \E px \in DragXs, py \in DragYs :
          TileEd_mouseMoveEvent(px, py) /\ Follow("move")
    \/ TileEd_mouseReleaseEvent /\ Follow("release")
    \/ MainWindow_undo /\ Follow("undo")
    \/ MainWindow_redo /\ Follow("redo")
    \/ MainWindow_clear /\ Follow("clear")
    \/ \E px \in SelXs, py \in SelYs :
          TileSelector_mousePressEvent(px, py) /\ Follow("select")
    \/ \E json \in {GoodDoc, ShortDoc} :
          MainWindow_load(json) /\ Follow("load")

SpecHist == Init /\ [][NextHist]_vars

-----------------------------------------------------------------------------
(* The operations of one editing session in one window: what the user can  *)
(* do to a document before saving it and loading it back, the zoom         *)
(* included.                                                               *)

Quiet == UNCHANGED <<last, hist>>

NextDoc ==
    \/ \E px \in InsideXs, py \in InsideYs : TileEd_mousePressEvent(px, py) /\ Quiet
    \/ \E px \in DragXs, py \in DragYs : TileEd_mouseMoveEvent(px, py) /\ Quiet
    \/ TileEd_mouseReleaseEvent /\ Quiet
    \/ MainWindow_undo /\ Quiet
    \/ MainWindow_redo /\ Quiet
    \/ MainWindow_clear /\ Quiet
    \/ MainWindow_zoom_in /\ Quiet
    \/ MainWindow_zoom_out /\ Quiet
    \/ \E px \in SelXs, py \in SelYs : TileSelector_mousePressEvent(px, py) /\ Quiet
    \/ MainWindow_load(GoodDoc) /\ Quiet
    \/ MainWindow_save_load /\ Quiet

SpecDoc == Init /\ [][NextDoc]_vars

-----------------------------------------------------------------------------
(* The coordinate arithmetic on its own: probe holds the inputs of one     *)
(* computation and, once it has been made, its result.                     *)

TileSizes == {ArgTileSize, <<GoodDoc.tile_width, GoodDoc.tile_height>>}

Points == {k * (ArgTile \div 2) : k \in 0..MaxPoint}

PointProbes ==
    [kind : {"point"}, px : Points, py : Points, tile_size : TileSizes,
     scale : EdMinScale..EdMaxScale, done : {FALSE}, out : {<<>>}]

TileProbes ==
    {[kind |-> "tile", cols |-> c, rows |-> r, tile_size |-> ts, tile |-> t,
      done |-> FALSE, out |-> <<>>] :
        c \in 1..MaxAtlas, r \in 1..MaxAtlas, ts \in TileSizes,
        t \in 0..((MaxAtlas * MaxAtlas) - 1)}

\* a call of set_tile(x, y, value) and of get_tile(x, y) on the new document,
\* the cell anywhere from one before the grid's first column and row to one
\* past its last
CellProbes ==
    [kind : {"cell"}, x : -1..ArgTiles[1], y : -1..ArgTiles[2], value : {MaxTile},
     done : {FALSE}, out : {<<>>}]

InitCoord ==
    /\ main = [size |-> ArgTiles, tile_size |-> ArgTileSize, tile_image |-> ArgTileset,
               pixmap |-> ArgTileset, tile |-> 0]
    /\ tile_ed = [size |-> ArgTiles, tile_size |-> ArgTileSize, pixmap |-> ArgTileset,
                  drawing |-> FALSE, scale |-> EdInitScale]
    /\ data_store = UndoRedo_init(Repeat(0, ArgTiles[1] * ArgTiles[2]))
    /\ tile_sel = [tile_size |-> ArgTileSize, pixmap |-> ArgTileset, scale |-> SelInitScale]
    /\ last = [op |-> "init", raised |-> FALSE]
    /\ hist = Idle
    /\ probe \in PointProbes \cup {q \in TileProbes : q.tile < q.cols * q.rows}
                           \cup CellProbes

\* the cell mousePressEvent / mouseMoveEvent compute from event.localPos()
PointerCell ==
    /\ probe.kind = "point"
    /\ ~probe.done
    /\ probe' = [probe EXCEPT !.done = TRUE,
                              !.out = <<PointToCell(probe.px, probe.tile_size[1], probe.scale),
                                        PointToCell(probe.py, probe.tile_size[2], probe.scale)>>]
    /\ UNCHANGED <<main, tile_ed, data_store, tile_sel, last, hist>>

\* get_tile_map_coords of a tile, then the tile the selector's mousePressEvent
\* selects when the atlas (drawn at scale 4.0) is clicked at that position
TileAtlasRoundTrip ==
    /\ probe.kind = "tile"
    /\ ~probe.done
    /\ LET ts == probe.tile_size
           pixmap_size == <<probe.cols * ts[1], probe.rows * ts[2]>>
           pos == TileSelector_get_tile_map_coords(probe.tile,
                                                   TilemapSize(pixmap_size, ts), ts)
           x == PointToCell(CellPixel(1, pos[1], SelInitScale), ts[1], SelInitScale)
           y == PointToCell(CellPixel(1, pos[2], SelInitScale), ts[2], SelInitScale)
       IN  probe' = [probe EXCEPT !.done = TRUE,
                                  !.out = <<pos[1], pos[2],
                                            TileSelector_get_tile(pixmap_size[1], ts[1], x, y)>>]
    /\ UNCHANGED <<main, tile_ed, data_store, tile_sel, last, hist>>

\* set_tile(x, y, value), then get_tile(x, y): out records whether each raised
\* IndexError and what get_tile returned
CellAccess ==
    /\ probe.kind = "cell"
    /\ ~probe.done
    /\ data_store' = set_tile(data_store, tile_ed.size, probe.x, probe.y, probe.value)
    /\ probe' = [probe EXCEPT
                    !.done = TRUE,
                    !.out = [set_raised |-> set_tile_raises(data_store, tile_ed.size,
                                                            probe.x, probe.y),
                             get_raised |-> get_tile_raises(data_store', tile_ed.size,
                                                            probe.x, probe.y),
                             got |-> IF get_tile_raises(data_store', tile_ed.size,
                                                        probe.x, probe.y)
                                     THEN -1
                                     ELSE get_tile(data_store', tile_ed.size,
                                                   probe.x, probe.y)]]
    /\ UNCHANGED <<main, tile_ed, tile_sel, last, hist>>

NextCoord == PointerCell \/ TileAtlasRoundTrip \/ CellAccess

SpecCoord == InitCoord /\ [][NextCoord]_vars

-----------------------------------------------------------------------------
(* Laws of the history, checked under SpecHist *)

\* the two grid contents differ in every cell
DifferEverywhere(a, b) ==
    /\ Len(a) = Len(b)
    /\ Len(a) >= 2
    /\ \A k \in DOMAIN a : a[k] # b[k]

\* C1: checkpoint/undo law.  Once create_copy has been followed by set_tile
\* writes only and then by undo, the visible grid contents are the contents
\* S0 that were visible before the checkpoint, cell for cell.
CheckpointUndoLaw == hist.phase = "undo" => hist.s0 = {Visible}

\* a checkpoint, an edit that changed the grid, an undo
CheckpointUndoWitness ==
    /\ hist.phase = "undo"
    /\ hist.s0 = {Visible}
    /\ hist.s1 # hist.s0

\* C2: redo law.  Once create_copy, set_tile writes producing S1, undo and
\* redo have been made in this order, the visible grid contents are S1.
RedoLaw == hist.phase = "redo" => hist.s1 = {Visible}

\* a checkpoint, an edit that changed the grid, an undo, a redo
RedoWitness ==
    /\ hist.phase = "redo"
    /\ hist.s1 = {Visible}
    /\ hist.s1 # hist.s0

\* C3: a new edit after an undo discards the redo branch.  After checkpoint,
\* edit to S1, undo, checkpoint, edit to S2: the index is at the last entry,
\* a following redo changes nothing, and while only undo and redo follow the
\* contents S1 (held by no entry that is left) are never visible.
NewEditDiscardsRedo ==
    [][/\ (hist'.phase = "edit" /\ hist'.lost # {})
            => data_store'.index = Len(data_store'.store) - 1
       /\ (hist.phase = "edit" /\ hist.lost # {} /\ hist'.phase = "edit_redo")
            => data_store' = data_store
       /\ (hist'.phase \in {"undo", "redo", "edit_redo", "nav"})
            => UndoRedo_data(data_store') \notin hist'.lost]_vars

\* the redo after the second edit has been made, S1 being in no entry
NewEditDiscardsRedoWitness ==
    /\ hist.phase = "edit_redo"
    /\ hist.lost # {}
    /\ data_store.index = Len(data_store.store) - 1

\* C4: a drag-paint gesture makes one checkpoint.  mousePressEvent appends
\* exactly one entry (after dropping the redo branch) and moves the index to
\* it, mouseMoveEvent and mouseReleaseEvent leave the index and the number of
\* entries alone, and an undo made after press, moves and release shows the
\* grid contents that were visible before the press.
GestureOneCheckpoint ==
    [][/\ (\E px \in InsideXs, py \in InsideYs : TileEd_mousePressEvent(px, py))
            => /\ data_store'.index = data_store.index + 1
               /\ Len(data_store'.store) = data_store.index + 2
               /\ SubSeq(data_store'.store, 1, data_store.index + 1)
                    = SubSeq(data_store.store, 1, data_store.index + 1)
       /\ (\E px \in DragXs, py \in DragYs : TileEd_mouseMoveEvent(px, py))
            => /\ data_store'.index = data_store.index
               /\ Len(data_store'.store) = Len(data_store.store)
       /\ TileEd_mouseReleaseEvent => data_store' = data_store
       /\ (hist'.phase = "undo" /\ hist'.by = "gesture")
            => hist'.s0 = {UndoRedo_data(data_store')}]_vars

\* a gesture that painted every cell (the press one, a move the other) and
\* was undone after the release
GestureWitness ==
    /\ hist.phase = "undo"
    /\ hist.by = "gesture"
    /\ hist.s0 = {Visible}
    /\ \E a \in hist.s0, b \in hist.s1 : DifferEverywhere(a, b)

-----------------------------------------------------------------------------
(* Invariants of the document, checked under Spec *)

\* C5: history index invariant.  In every reachable state
\* 0 <= index < len(store), so UndoRedo.data denotes an existing entry.
IndexInvariant ==
    /\ 0 <= data_store.index
    /\ data_store.index < Len(data_store.store)

\* a loaded document edited up to the bound, undone to entry 0 and redone to
\* the newest entry
IndexWitness ==
    /\ last.op = "redo"
    /\ tile_ed.size = <<GoodDoc.width, GoodDoc.height>>
    /\ Len(data_store.store) = MaxHist
    /\ data_store.index = MaxHist - 1

\* C6: grid size invariant.  Every entry of the history store has exactly
\* columns * rows cells, (columns, rows) being the editor's grid size; a
\* document whose data has another length is not installed.
GridSizeInvariant ==
    \A k \in DOMAIN data_store.store :
        Len(data_store.store[k]) = tile_ed.size[1] * tile_ed.size[2]

\* C7: decode is atomic on failure.  A load whose decode raises leaves every
\* component of the open document as it was.
DecodeAtomicOnFailure ==
    [][(last'.op = "load" /\ last'.raised) => UNCHANGED doc_vars]_vars

-----------------------------------------------------------------------------
(* Save and load, checked under SpecDoc *)

-----------------------------------------------------------------------------
(* Coordinate arithmetic, checked under SpecCoord *)

\* C9: tile index / atlas position round trip.  For an atlas of c columns
\* and r rows and a tile t < c * r, get_tile_map_coords gives
\* px = (t mod c) * tileWidth, py = floor(t / c) * tileHeight, and mapping
\* that position back gives t.
TileIndexRoundTrip ==
    (probe.kind = "tile" /\ probe.done)
        => /\ probe.out[1] = (probe.tile % probe.cols) * probe.tile_size[1]
           /\ probe.out[2] = (probe.tile \div probe.cols) * probe.tile_size[2]
           /\ probe.out[3] = probe.tile

\* C10: pointer-to-cell mapping.  The cell computed for the pointer position
\* (sx, sy) is (floor(sx / (tileWidth * scale)), floor(sy / (tileHeight * scale)))
\* at every scale of the zoom range.
PointerCellMapping ==
    (probe.kind = "point" /\ probe.done)
        => probe.out = <<(probe.px * Quarters) \div (probe.tile_size[1] * probe.scale),
                         (probe.py * Quarters) \div (probe.tile_size[2] * probe.scale)>>

-----------------------------------------------------------------------------
(* Cell access, checked under SpecCoord *)

\* the cell lies on the grid
InRange(size, x, y) == x \in 0..(size[1] - 1) /\ y \in 0..(size[2] - 1)

\* C11: bounds contract of cell access.  Whenever x is outside [0, columns)
\* or y is outside [0, rows), set_tile(x, y, v) and get_tile(x, y) both fail
\* with an out-of-bounds error, no cell of the grid is modified and no cell
\* is read as a result.
BoundsContract ==
    (probe.kind = "cell" /\ probe.done /\ ~InRange(tile_ed.size, probe.x, probe.y))
        => /\ probe.out.set_raised
           /\ probe.out.get_raised
           /\ data_store = UndoRedo_init(Repeat(0, tile_ed.size[1] * tile_ed.size[2]))

-----------------------------------------------------------------------------
(* Cell access by the handlers, checked under SpecDoc *)

\* the cells of the grid
Cells(size) == (0..(size[1] - 1)) \X (0..(size[2] - 1))

\* C12: set/get law.  When mouseMoveEvent, the button held, calls
\* set_tile(x, y, v) for an in-range cell (x, y), get_tile(x, y) returns v
\* afterwards, every other cell of the visible grid is unchanged, and every
\* other entry of the history store is unchanged.  (Such a step leaves the
\* editor, the main window and the index as they are and has
\* data_store' = set_tile(data_store, size, x, y, v).)
SetGetLaw ==
    [][(tile_ed.drawing /\ tile_ed' = tile_ed /\ main' = main /\ tile_sel' = tile_sel)
         => \A c \in Cells(tile_ed.size) :
               data_store' = set_tile(data_store, tile_ed.size, c[1], c[2], main.tile)
                 => /\ ~get_tile_raises(data_store', tile_ed.size, c[1], c[2])
                    /\ get_tile(data_store', tile_ed.size, c[1], c[2]) = main.tile
                    /\ \A d \in Cells(tile_ed.size) \ {c} :
                           get_tile(data_store', tile_ed.size, d[1], d[2])
                               = get_tile(data_store, tile_ed.size, d[1], d[2])
                    /\ data_store'.index = data_store.index
                    /\ Len(data_store'.store) = Len(data_store.store)
                    /\ \A e \in DOMAIN data_store.store \ {data_store.index + 1} :
                           data_store'.store[e] = data_store.store[e]]_vars

\* a gesture in progress has changed both cells of the visible grid, to two
\* different tiles (so not by clear), and the entry before it differs from it
\* in both
SetGetWitness ==
    /\ tile_ed.drawing
    /\ data_store.index >= 1
    /\ data_store.index + 1 = Len(data_store.store)
    /\ Len(Visible) = tile_ed.size[1] * tile_ed.size[2]
    /\ DifferEverywhere(Visible, data_store.store[data_store.index])
    /\ \E j, k \in DOMAIN Visible : Visible[j] # Visible[k]

-----------------------------------------------------------------------------
(* Totality of the editing handlers, checked under Spec *)

\* C13: editing operations are total on a valid open document.  On a document
\* whose store entries all have columns * rows cells, a press, a move while
\* the button is held (at any pointer position, positions dragged past the
\* grid's edges included), clear, undo, redo and a tile selection complete
\* without raising, and the document is valid afterwards.  (A handler that
\* raises leaves the entries' lengths as they were, so the document was valid
\* before the handler iff it is valid after it.)
EditingTotal ==
    (GridSizeInvariant
       /\ last.op \in {"press", "move", "clear", "undo", "redo", "select"})
        => ~last.raised

-----------------------------------------------------------------------------
(* Undo and redo steps, checked under Spec *)

\* C14: undo/redo boundaries.  undo at index 0 and redo at index =
\* len(store) - 1 leave the whole history state unchanged; otherwise undo
\* decrements and redo increments the index by exactly 1; in all cases the
\* store's length and every entry's contents stay as they were.
UndoRedoBoundaries ==
    [][/\ last'.op = "undo"
            => /\ data_store'.store = data_store.store
               /\ data_store'.index = IF data_store.index = 0
                                      THEN 0 ELSE data_store.index - 1
       /\ last'.op = "redo"
            => /\ data_store'.store = data_store.store
               /\ data_store'.index = IF data_store.index = Len(data_store.store) - 1
                                      THEN data_store.index
                                      ELSE data_store.index + 1]_vars

\* undo has run on a store of one entry, that is at index 0
UndoBoundaryWitness ==
    /\ last.op = "undo"
    /\ Len(data_store.store) = 1
    /\ data_store.index = 0

-----------------------------------------------------------------------------
(* What encode emits, checked under SpecHist *)

\* C15: encode emits the currently visible snapshot.  In every reachable
\* state the tile_data.data of encode_to_JSON is the contents of store[index],
\* whichever entry is the newest; in particular, after a paint and an undo it
\* is the contents S0 from before the paint.
EncodeEmitsVisible ==
    LET encoded == MainWindow_encode_to_JSON.tile_data.data
    IN  /\ encoded = data_store.store[data_store.index + 1]
        /\ hist.phase = "undo" => hist.s0 = {encoded}

\* cell (0, 0) painted with tile 1 by a press, then undo: the painted entry is
\* still the newest one, and encode emits 0 for the cell
EncodeAfterUndoWitness ==
    /\ hist.phase = "undo"
    /\ hist.by \in {"press", "gesture"}
    /\ data_store.index + 2 = Len(data_store.store)
    /\ {data_store.store[Len(data_store.store)]} = hist.s1
    /\ get_tile([data_store EXCEPT !.index = data_store.index + 1], tile_ed.size, 0, 0) = 1
    /\ get_tile(data_store, tile_ed.size, 0, 0) = 0
    /\ MainWindow_encode_to_JSON.tile_data.data[1] = 0

-----------------------------------------------------------------------------
(* The checkpoint made by press and clear, checked under SpecHist *)

\* the cells in which two grid contents differ
Differing(a, b) == {k \in DOMAIN a : a[k] # b[k]}

\* C16: checkpoint step.  The create_copy of a press or a clear, made at
\* index i on store s, yields a store of exactly i + 2 entries and index
\* i + 1 whose entries 0..i are those of s; after a press entry i + 1 has the
\* contents of s[i] apart from the one cell the press then wrote; and the
\* writes that follow the checkpoint leave entry i as it was.
CheckpointStep ==
    [][/\ ((\E px \in InsideXs, py \in InsideYs : TileEd_mousePressEvent(px, py))
             \/ MainWindow_clear)
            => /\ Len(data_store'.store) = data_store.index + 2
               /\ data_store'.index = data_store.index + 1
               /\ SubSeq(data_store'.store, 1, data_store.index + 1)
                      = SubSeq(data_store.store, 1, data_store.index + 1)
               /\ Len(data_store'.store[data_store.index + 2]) = Len(Visible)
       /\ (\E px \in InsideXs, py \in InsideYs : TileEd_mousePressEvent(px, py))
            => Cardinality(Differing(data_store'.store[data_store.index + 2], Visible)) <= 1
       /\ hist'.phase = "edit"
            => /\ data_store'.index >= 1
               /\ hist'.s0 = {data_store'.store[data_store'.index]}]_vars

\* a checkpoint was made after an undo and its entry has been written since:
\* the entry it was copied from still has the contents it had
CheckpointStepWitness ==
    /\ hist.phase = "edit"
    /\ hist.lost # {}
    /\ data_store.index + 1 = Len(data_store.store)
    /\ hist.s0 = {data_store.store[data_store.index]}
    /\ Differing(Visible, data_store.store[data_store.index]) # {}

-----------------------------------------------------------------------------
(* Clear, checked under Spec *)

\* C17: clear is one undoable edit that fills the grid.  From any reachable
\* state clear makes exactly one checkpoint and sets every cell of the
\* visible grid to the selected tile: afterwards all columns * rows cells
\* equal that tile, and a single undo shows the contents visible before.
ClearFillsGrid ==
    [][last'.op = "clear"
         => /\ ~last'.raised
            /\ data_store'.index = data_store.index + 1
            /\ Len(data_store'.store) = data_store.index + 2
            /\ Len(UndoRedo_data(data_store')) = tile_ed.size[1] * tile_ed.size[2]
            /\ \A k \in DOMAIN UndoRedo_data(data_store') :
                   UndoRedo_data(data_store')[k] = main.tile
            /\ UndoRedo_data(UndoRedo_undo(data_store')) = Visible]_vars

-----------------------------------------------------------------------------
(* Load, checked under Spec *)

\* C18: load rebuilds the history.  After a decode_from_JSON that did not
\* raise, whatever the history was, the store has exactly one entry, the
\* loaded grid contents, and index 0; undo and redo right after it change
\* nothing, so no contents of the document open before can become visible.
LoadRebuildsHistory ==
    [][(last'.op \in {"load", "save_load"} /\ ~last'.raised)
         => /\ data_store'.index = 0
            /\ Len(data_store'.store) = 1
            /\ \/ last'.op = "load"
                     /\ \E json \in Files :
                           /\ DecodeFailsAt(json) = 0
                           /\ data_store'.store = <<json.tile_data.data>>
               \/ last'.op = "save_load"
                     /\ data_store'.store = <<Visible>>
            /\ UndoRedo_undo(data_store') = data_store'
            /\ UndoRedo_redo(data_store') = data_store']_vars

\* GoodDoc has been loaded over a document that had been painted on (reset
\* leaves drawing as the press set it): one entry, the loaded data
LoadWitness ==
    /\ last.op = "load"
    /\ tile_ed.drawing
    /\ ~last.raised
    /\ data_store = [index |-> 0, store |-> <<GoodDoc.tile_data.data>>]
    /\ tile_ed.size = <<GoodDoc.width, GoodDoc.height>>

-----------------------------------------------------------------------------
(* Recorded snapshots, checked under SpecHist *)

\* C19: recorded snapshots are immutable under every event interleaving.
\* Whatever the order of press, move, release, clear, undo and redo (undo and
\* redo while the button is held included), a handler writes only into the
\* entry the most recent checkpoint created, so entry 0 is never modified:
\* as long as no load has replaced the document (a load changes the grid
\* size here), entry 0 holds the contents the document was created with.
SnapshotsImmutable ==
    tile_ed.size = ArgTiles
        => data_store.store[1] = Repeat(0, ArgTiles[1] * ArgTiles[2])

-----------------------------------------------------------------------------
(* Zoom, checked under SpecDoc *)

\* C20: zoom stays in range.  From scale 1.0, whatever zoom_in, zoom_out and
\* other handlers (load included) run, the editor's scale is a whole number
\* of quarters from 0.5 to 8.0, so above 0; a step that changes the scale
\* changes it by 0.25 and changes neither grid contents nor history nor
\* anything else of the document; zoom_in at 8.0 and zoom_out at 0.5 leave
\* the scale as it is.
ZoomInRange ==
    [][/\ tile_ed.scale \in EdMinScale..EdMaxScale
       /\ tile_ed'.scale \in EdMinScale..EdMaxScale
       /\ EdMinScale > 0
       /\ tile_ed'.scale # tile_ed.scale
            => /\ tile_ed'.scale \in {tile_ed.scale - 1, tile_ed.scale + 1}
               /\ data_store' = data_store
               /\ main' = main
               /\ tile_sel' = tile_sel
               /\ tile_ed' = [tile_ed EXCEPT !.scale = tile_ed'.scale]
       /\ (MainWindow_zoom_in /\ tile_ed.scale = EdMaxScale)
            => tile_ed'.scale = EdMaxScale
       /\ (MainWindow_zoom_out /\ tile_ed.scale = EdMinScale)
            => tile_ed'.scale = EdMinScale]_vars

\* zoomed in all the way to 8.0 on a loaded document that has been edited
ZoomWitness ==
    /\ tile_ed.scale = EdMaxScale
    /\ tile_ed.size = <<GoodDoc.width, GoodDoc.height>>
    /\ data_store.index >= 1
    /\ Visible # data_store.store[1]

====
